---- MODULE Spec2Model ----
(***************************************************************************)
(* CustomHashTable<Key, Value> of src/ConsoleApplication2.cpp: an open-    *)
(* addressing hash table with linear probing, tombstones (in_use = false)  *)
(* and growth by doubling, every public operation under access_mutex.      *)
(***************************************************************************)
EXTENDS Integers, FiniteSets, Sequences, TLC

\* ------------------------------------------------------------------ bounds
NumThreads == 2
MaxVal == 2
MaxInitCap == 3
MaxDepth == 1
MaxCalls == 5

Threads == 1..NumThreads
\* nullptr, for a pointer key type
NullKey == 0
\* The keys: 1 and 5 share a home slot in tables of size 1, 2 and 4, 2 and 5 in one of
\* size 3, 2 and 6 in tables of size 1, 2 and 4.
ValidKeys == {1, 2, 5, 6}
AllKeys == {NullKey} \cup ValidKeys
\* the keys the callers of Spec pass
CallKeys == {NullKey, 1, 2, 5}
\* the keys thread t of the disjoint-insert workload writes
WorkKeys(t) == {k \in ValidKeys : k % NumThreads = t % NumThreads}
Values == 1..MaxVal
\* "no value": the caller's result variable left as it was / key absent
NoValue == 0
\* mutex owner 0: unlocked
Free == 0

\* Key is int* (line 286): check_key's if constexpr branch is compiled in.  With a
\* non-pointer Key the branch is absent and every key behaves like a non-null one.
KeyIsPointer == TRUE

VARIABLES
    initial_size,   \* the constructor's argument
    table,          \* std::vector<Entry*>: index -> slot
    table_size,
    item_count,
    access_mutex,   \* owner thread, or Free
    resize_mutex,   \* owner thread, or Free
    pc,             \* where each thread is
    op,             \* the operation each thread is in
    key,            \* its key argument
    val,            \* its value argument (insert)
    result,         \* what the call returns
    depth,          \* nesting depth of insert's recursive retry
    grew,           \* history: this call's resize() grew the table
    path,           \* history: how this insert ended: "overwrite", "fresh" or "wrap"
    expect,         \* history: what the sequential map answers to this call
    seq,            \* history: sequential map, calls applied in access_mutex order
    amap,           \* history: last value insert(k, v) returned true for, NoValue after remove(k)
    removed,        \* history: "gone" once remove(k) returned true, "back" once an
                    \* insert(k, .) returned true after that, "no" before
    calls,          \* history: the number of calls made so far
    written         \* history: the value a disjoint-insert workload wrote for each key

shared == <<table, table_size, item_count>>
locks == <<access_mutex, resize_mutex>>
locals == <<pc, op, key, val, result, depth, grew, path>>
history == <<expect, seq, amap, removed>>
config == <<initial_size, calls>>
vars == <<config, shared, locks, locals, history, written>>

\* ------------------------------------------------------------------ slots
\* nullptr
NullEntry == [alloc |-> FALSE, key |-> 0, value |-> 0, in_use |-> FALSE]
\* new Entry() with key, value assigned and in_use stored true
LiveEntry(k, v) == [alloc |-> TRUE, key |-> k, value |-> v, in_use |-> TRUE]

IsEmpty(e) == ~e.alloc
IsLive(e) == e.alloc /\ e.in_use
IsTomb(e) == e.alloc /\ ~e.in_use

\* std::hash<Key>{}(key): the identity on integers (and on addresses)
StdHash(k) == k

hash(k, size) == StdHash(k) % size

\* mutant: the null check left out
check_key_Always(k) == TRUE

check_key(k) == ~(KeyIsPointer /\ k = NullKey)

size == item_count

\* ------------------------------------------------------------------ resize
\* mutant: no probing on a collision in the new table
Place_NoProbe(new_table, new_size, index) == index

\* lines 45-47: while (new_table[index]) index = (index + 1) % new_size
RECURSIVE Place(_, _, _)
Place(new_table, new_size, index) ==
    IF new_table[index].alloc
    THEN Place(new_table, new_size, (index + 1) % new_size)
    ELSE index

\* mutant: the new index computed with the old table size
RECURSIVE Rehash_OldSize(_, _, _, _, _)
Rehash_OldSize(old, old_size, i, new_table, new_size) ==
    IF i = old_size THEN new_table
    ELSE IF old[i].alloc /\ old[i].in_use
         THEN LET index == Place(new_table, new_size, hash(old[i].key, old_size))
              IN Rehash_OldSize(old, old_size, i + 1,
                                [new_table EXCEPT ![index] = old[i]], new_size)
         ELSE Rehash_OldSize(old, old_size, i + 1, new_table, new_size)

\* lines 42-50: for (auto& entry : table), from slot i on
RECURSIVE Rehash(_, _, _, _, _)
Rehash(old, old_size, i, new_table, new_size) ==
    IF i = old_size THEN new_table
    ELSE IF old[i].alloc /\ old[i].in_use
         THEN LET index == Place(new_table, new_size, hash(old[i].key, new_size))
              IN Rehash(old, old_size, i + 1,
                        [new_table EXCEPT ![index] = old[i]], new_size)
         ELSE Rehash(old, old_size, i + 1, new_table, new_size)

\* mutant: growth only when the table is over-full
NeedsResize_Late(count, tsize) == count > tsize

\* line 38
NeedsResize(count, tsize) == count * 2 > tsize

\* mutant: the table grows by one slot
NewSize_PlusOne(tsize) == tsize + 1

\* line 39: size_t new_size = table_size * 2
NewSize(tsize) == tsize * 2

\* lines 38-54: the table and table_size resize() leaves
Resized(tbl, tsize, count) ==
    IF NeedsResize(count, tsize)
    THEN LET new_size == NewSize(tsize)
         IN [table |-> Rehash(tbl, tsize, 0,
                              [i \in 0..(new_size - 1) |-> NullEntry], new_size),
             table_size |-> new_size]
    ELSE [table |-> tbl, table_size |-> tsize]

\* ------------------------------------------------------------------ probing
\* mutant: the liveness flag is not looked at
Matches_IgnoringInUse(e, k) == e.alloc /\ e.key = k

\* line 86, 119, 142
Matches(e, k) == e.in_use /\ e.key = k

\* mutant: insert never recognises the key it is given, and takes the first empty slot
RECURSIVE InsertScan_NoMatch(_, _, _, _, _)
InsertScan_NoMatch(tbl, tsize, k, index, original_index) ==
    IF ~tbl[index].alloc THEN [kind |-> "empty", index |-> index]
    ELSE LET next == (index + 1) % tsize
         IN IF next = original_index
            THEN [kind |-> "wrap", index |-> next]
            ELSE InsertScan_NoMatch(tbl, tsize, k, next, original_index)

\* lines 85-95: the loop of insert; where it ends
RECURSIVE InsertScan(_, _, _, _, _)
InsertScan(tbl, tsize, k, index, original_index) ==
    IF ~tbl[index].alloc THEN [kind |-> "empty", index |-> index]
    ELSE IF Matches(tbl[index], k) THEN [kind |-> "match", index |-> index]
    ELSE LET next == (index + 1) % tsize
         IN IF next = original_index
            THEN [kind |-> "wrap", index |-> next]
            ELSE InsertScan(tbl, tsize, k, next, original_index)

\* mutant: find stops at a tombstone as it does at an empty slot
RECURSIVE FindScan_StopsAtTombstone(_, _, _, _, _)
FindScan_StopsAtTombstone(tbl, tsize, k, index, original_index) ==
    IF ~tbl[index].alloc \/ ~tbl[index].in_use THEN -1
    ELSE IF tbl[index].key = k THEN index
    ELSE LET next == (index + 1) % tsize
         IN IF next = original_index THEN -1
            ELSE FindScan_StopsAtTombstone(tbl, tsize, k, next, original_index)

\* lines 118-125: the loop of find; the index of the match, or -1
RECURSIVE FindScan(_, _, _, _, _)
FindScan(tbl, tsize, k, index, original_index) ==
    IF ~tbl[index].alloc THEN -1
    ELSE IF Matches(tbl[index], k) THEN index
    ELSE LET next == (index + 1) % tsize
         IN IF next = original_index THEN -1
            ELSE FindScan(tbl, tsize, k, next, original_index)

\* mutant: remove matches on the key alone
RECURSIVE RemoveScan_KeyOnly(_, _, _, _, _)
RemoveScan_KeyOnly(tbl, tsize, k, index, original_index) ==
    IF ~tbl[index].alloc THEN -1
    ELSE IF tbl[index].key = k THEN index
    ELSE LET next == (index + 1) % tsize
         IN IF next = original_index THEN -1
            ELSE RemoveScan_KeyOnly(tbl, tsize, k, next, original_index)

\* lines 141-149: the loop of remove; the index of the match, or -1
RECURSIVE RemoveScan(_, _, _, _, _)
RemoveScan(tbl, tsize, k, index, original_index) ==
    IF ~tbl[index].alloc THEN -1
    ELSE IF Matches(tbl[index], k) THEN index
    ELSE LET next == (index + 1) % tsize
         IN IF next = original_index THEN -1
            ELSE RemoveScan(tbl, tsize, k, next, original_index)

\* results of calls
NoResult == [status |-> "none", value |-> NoValue]
RetTrue == [status |-> "true", value |-> NoValue]
RetFalse == [status |-> "false", value |-> NoValue]
RetFound(v) == [status |-> "true", value |-> v]
RetError == [status |-> "error", value |-> NoValue]

\* lines 115-127: what find(k) returns on a table
FindIn(tbl, tsize, k) ==
    LET i == FindScan(tbl, tsize, k, hash(k, tsize), hash(k, tsize))
    IN IF i >= 0 THEN RetFound(tbl[i].value) ELSE RetFalse

\* find(k) on the current table
FindResult(k) == FindIn(table, table_size, k)

\* ------------------------------------------------------------------ Init
\* lines 68-70
Init ==
    /\ calls = 0
    /\ initial_size \in 1..MaxInitCap
    /\ table_size = initial_size
    /\ table = [i \in 0..(initial_size - 1) |-> NullEntry]
    /\ item_count = 0
    /\ access_mutex = Free
    /\ resize_mutex = Free
    /\ pc = [t \in Threads |-> "idle"]
    /\ op = [t \in Threads |-> "none"]
    /\ key = [t \in Threads |-> 0]
    /\ val = [t \in Threads |-> NoValue]
    /\ result = [t \in Threads |-> NoResult]
    /\ depth = [t \in Threads |-> 0]
    /\ grew = [t \in Threads |-> FALSE]
    /\ path = [t \in Threads |-> "none"]
    /\ expect = [t \in Threads |-> NoResult]
    /\ seq = [k \in AllKeys |-> NoValue]
    /\ amap = [k \in AllKeys |-> NoValue]
    /\ removed = [k \in AllKeys |-> "no"]
    /\ written = [k \in AllKeys |-> NoValue]

\* the process is running: no thread has overflowed its stack
Running == \A u \in Threads : pc[u] # "crashed"

\* ------------------------------------------------------------------ calls
\* lines 73-78, 108-113, 131-136: check_key, then wait for access_mutex
Call(t, o, k, v) ==
    /\ Running
    /\ pc[t] = "idle"
    /\ calls < MaxCalls
    /\ calls' = calls + 1
    /\ UNCHANGED initial_size
    /\ op' = [op EXCEPT ![t] = o]
    /\ key' = [key EXCEPT ![t] = k]
    /\ val' = [val EXCEPT ![t] = v]
    /\ depth' = [depth EXCEPT ![t] = 0]
    /\ grew' = [grew EXCEPT ![t] = FALSE]
    /\ path' = [path EXCEPT ![t] = "none"]
    /\ IF check_key(k)
       THEN /\ pc' = [pc EXCEPT ![t] = "lock"]
            /\ result' = [result EXCEPT ![t] = NoResult]
            /\ expect' = [expect EXCEPT ![t] = NoResult]
       ELSE /\ pc' = [pc EXCEPT ![t] = "ret"]
            /\ result' = [result EXCEPT ![t] = RetFalse]
            /\ expect' = [expect EXCEPT ![t] = RetFalse]
    /\ UNCHANGED <<shared, locks, seq, amap, removed>>

InsertCall(t, k, v) == Call(t, "insert", k, v) /\ UNCHANGED written
FindCall(t, k) == Call(t, "find", k, NoValue) /\ UNCHANGED written
RemoveCall(t, k) == Call(t, "remove", k, NoValue) /\ UNCHANGED written

\* mutant: access_mutex is taken whoever owns it
Lock_NoExclusion(t) ==
    /\ Running
    /\ pc[t] = "lock"
    /\ access_mutex' = t
    /\ pc' = [pc EXCEPT ![t] = CASE op[t] = "insert" -> "resize80"
                                 [] op[t] = "find" -> "find_probe"
                                 [] OTHER -> "remove_probe"]
    /\ UNCHANGED <<config, shared, resize_mutex, op, key, val, result, depth, grew, path,
                   history, written>>

\* lines 78, 113, 136: std::lock_guard<std::mutex> lock(access_mutex)
Lock(t) ==
    /\ Running
    /\ pc[t] = "lock"
    /\ access_mutex = Free
    /\ access_mutex' = t
    /\ pc' = [pc EXCEPT ![t] = CASE op[t] = "insert" -> "resize80"
                                 [] op[t] = "find" -> "find_probe"
                                 [] OTHER -> "remove_probe"]
    /\ UNCHANGED <<config, shared, resize_mutex, op, key, val, result, depth, grew, path,
                   history, written>>

\* line 36: std::lock_guard<std::mutex> lock(resize_mutex), called at line 80 or 92
ResizeLock(t) ==
    /\ Running
    /\ pc[t] \in {"resize80", "resize92"}
    /\ resize_mutex = Free
    /\ resize_mutex' = t
    /\ pc' = [pc EXCEPT ![t] = IF pc[t] = "resize80" THEN "grow80" ELSE "grow92"]
    /\ UNCHANGED <<config, shared, access_mutex, op, key, val, result, depth, grew, path,
                   history, written>>

\* lines 38-55: the body of resize() and the release of resize_mutex
ResizeBody(t) ==
    /\ Running
    /\ pc[t] \in {"grow80", "grow92"}
    /\ LET r == Resized(table, table_size, item_count)
       IN /\ table' = r.table
          /\ table_size' = r.table_size
          /\ grew' = [grew EXCEPT ![t] = grew[t] \/ r.table_size # table_size]
    /\ resize_mutex' = Free
    /\ pc' = [pc EXCEPT ![t] = IF pc[t] = "grow80" THEN "insert_probe" ELSE "reinsert"]
    /\ UNCHANGED <<config, item_count, access_mutex, op, key, val, result, depth, path,
                   history, written>>

\* mutant: a fresh insert counted twice
CountAfterInsert_Twice(count) == count + 2

\* line 103: item_count++
CountAfterInsert(count) == count + 1

\* mutant: remove forgets the count
CountAfterRemove_Forgotten(count) == count

\* line 144: item_count--
CountAfterRemove(count) == count - 1

\* lines 82-104: hash, the probe loop and the write it ends in
InsertProbe(t) ==
    /\ Running
    /\ pc[t] = "insert_probe"
    /\ LET k == key[t]
           v == val[t]
           r == InsertScan(table, table_size, k, hash(k, table_size), hash(k, table_size))
           done == r.kind # "wrap"
       IN /\ CASE r.kind = "match" ->
                    \* lines 87-88
                    /\ table' = [table EXCEPT ![r.index].value = v]
                    /\ item_count' = item_count
                    /\ pc' = [pc EXCEPT ![t] = "ret"]
                    /\ result' = [result EXCEPT ![t] = RetTrue]
               [] r.kind = "empty" ->
                    \* lines 97-104
                    /\ table' = [table EXCEPT ![r.index] = LiveEntry(k, v)]
                    /\ item_count' = CountAfterInsert(item_count)
                    /\ pc' = [pc EXCEPT ![t] = "ret"]
                    /\ result' = [result EXCEPT ![t] = RetTrue]
               [] OTHER ->
                    \* lines 91-92
                    /\ UNCHANGED <<table, item_count, result>>
                    /\ pc' = [pc EXCEPT ![t] = "resize92"]
          /\ amap' = IF done THEN [amap EXCEPT ![k] = v] ELSE amap
          /\ removed' = IF done /\ removed[k] # "no"
                        THEN [removed EXCEPT ![k] = "back"] ELSE removed
          /\ seq' = IF depth[t] = 0 THEN [seq EXCEPT ![k] = v] ELSE seq
          /\ expect' = IF depth[t] = 0 THEN [expect EXCEPT ![t] = RetTrue] ELSE expect
          /\ path' = [path EXCEPT ![t] = CASE r.kind = "match" -> "overwrite"
                                            [] r.kind = "empty" -> "fresh"
                                            [] OTHER -> "wrap"]
    /\ UNCHANGED <<config, table_size, locks, op, key, val, depth, grew, written>>

\* line 93: return insert(key, value) while this thread owns access_mutex.  check_key
\* passes again; locking a std::mutex the thread already owns is undefined: the
\* thread blocks on itself, ...
RelockDeadlocks(t) ==
    /\ Running
    /\ pc[t] = "reinsert"
    /\ access_mutex = t
    /\ pc' = [pc EXCEPT ![t] = "deadlocked"]
    /\ UNCHANGED <<config, shared, locks, op, key, val, result, depth, grew, path, history,
                   written>>

\* ... or lock() throws std::system_error (resource_deadlock_would_occur), which leaves
\* insert through the outer lock_guard, ...
RelockThrows(t) ==
    /\ Running
    /\ pc[t] = "reinsert"
    /\ access_mutex = t
    /\ result' = [result EXCEPT ![t] = RetError]
    /\ pc' = [pc EXCEPT ![t] = "ret"]
    /\ UNCHANGED <<config, shared, locks, op, key, val, depth, grew, path, history, written>>

\* ... or the lock is taken again and the nested insert runs from line 80, ...
RelockReenters(t) ==
    /\ Running
    /\ pc[t] = "reinsert"
    /\ access_mutex = t
    /\ depth[t] < MaxDepth
    /\ depth' = [depth EXCEPT ![t] = depth[t] + 1]
    /\ pc' = [pc EXCEPT ![t] = "resize80"]
    /\ UNCHANGED <<config, shared, locks, op, key, val, result, grew, path, history, written>>

\* ... until the recursion exhausts the stack and the process dies.
StackOverflow(t) ==
    /\ Running
    /\ pc[t] = "reinsert"
    /\ access_mutex = t
    /\ depth[t] = MaxDepth
    /\ pc' = [pc EXCEPT ![t] = "crashed"]
    /\ UNCHANGED <<config, shared, locks, op, key, val, result, depth, grew, path, history,
                   written>>

\* mutant: find calls resize() before it probes
FindProbe_Resizes(t) ==
    /\ Running
    /\ pc[t] = "find_probe"
    /\ LET r == Resized(table, table_size, item_count)
       IN /\ table' = r.table
          /\ table_size' = r.table_size
          /\ result' = [result EXCEPT ![t] = FindIn(r.table, r.table_size, key[t])]
    /\ expect' = [expect EXCEPT ![t] = IF seq[key[t]] # NoValue
                                       THEN RetFound(seq[key[t]]) ELSE RetFalse]
    /\ pc' = [pc EXCEPT ![t] = "ret"]
    /\ UNCHANGED <<config, item_count, locks, op, key, val, depth, grew, path, seq, amap,
                   removed, written>>

\* lines 115-127
FindProbe(t) ==
    /\ Running
    /\ pc[t] = "find_probe"
    /\ result' = [result EXCEPT ![t] = FindIn(table, table_size, key[t])]
    /\ expect' = [expect EXCEPT ![t] = IF seq[key[t]] # NoValue
                                       THEN RetFound(seq[key[t]]) ELSE RetFalse]
    /\ pc' = [pc EXCEPT ![t] = "ret"]
    /\ UNCHANGED <<config, shared, locks, op, key, val, depth, grew, path, seq, amap, removed,
                   written>>

\* lines 138-151
RemoveProbe(t) ==
    /\ Running
    /\ pc[t] = "remove_probe"
    /\ LET k == key[t]
           i == RemoveScan(table, table_size, k, hash(k, table_size), hash(k, table_size))
       IN /\ IF i >= 0
             THEN \* lines 143-145
                  /\ table' = [table EXCEPT ![i].in_use = FALSE]
                  /\ item_count' = CountAfterRemove(item_count)
                  /\ result' = [result EXCEPT ![t] = RetTrue]
                  /\ removed' = [removed EXCEPT ![k] = "gone"]
             ELSE /\ UNCHANGED <<table, item_count, removed>>
                  /\ result' = [result EXCEPT ![t] = RetFalse]
          /\ amap' = [amap EXCEPT ![k] = NoValue]
          /\ expect' = [expect EXCEPT ![t] = IF seq[k] # NoValue THEN RetTrue ELSE RetFalse]
          /\ seq' = [seq EXCEPT ![k] = NoValue]
    /\ pc' = [pc EXCEPT ![t] = "ret"]
    /\ UNCHANGED <<config, table_size, locks, op, key, val, depth, grew, path, written>>

\* the return statement: the lock_guard, if the call took it, releases access_mutex
Return(t) ==
    /\ Running
    /\ pc[t] = "ret"
    /\ access_mutex' = IF access_mutex = t THEN Free ELSE access_mutex
    /\ pc' = [pc EXCEPT ![t] = "idle"]
    /\ op' = [op EXCEPT ![t] = "none"]
    /\ key' = [key EXCEPT ![t] = 0]
    /\ val' = [val EXCEPT ![t] = NoValue]
    /\ result' = [result EXCEPT ![t] = NoResult]
    /\ depth' = [depth EXCEPT ![t] = 0]
    /\ grew' = [grew EXCEPT ![t] = FALSE]
    /\ path' = [path EXCEPT ![t] = "none"]
    /\ expect' = [expect EXCEPT ![t] = NoResult]
    /\ UNCHANGED <<config, shared, resize_mutex, seq, amap, removed, written>>

\* ------------------------------------------------------------------ Spec
\* any thread calls any operation with any key and value
Next ==
    \E t \in Threads :
        \/ \E k \in CallKeys, v \in Values : InsertCall(t, k, v)
        \/ \E k \in CallKeys : FindCall(t, k)
        \/ \E k \in CallKeys : RemoveCall(t, k)
        \/ Lock(t)
        \/ ResizeLock(t)
        \/ ResizeBody(t)
        \/ InsertProbe(t)
        \/ RelockDeadlocks(t)
        \/ RelockThrows(t)
        \/ RelockReenters(t)
        \/ StackOverflow(t)
        \/ FindProbe(t)
        \/ RemoveProbe(t)
        \/ Return(t)

Spec == Init /\ [][Next]_vars

\* ------------------------------------------------------------------ SpecDisjoint
\* testThreadSafety, testConcurrentInserts: every thread inserts its own keys, each once
WorkInsertCall(t, k, v) ==
    /\ written[k] = NoValue
    /\ Call(t, "insert", k, v)
    /\ written' = [written EXCEPT ![k] = v]

NextDisjoint ==
    \E t \in Threads :
        \/ \E k \in WorkKeys(t), v \in Values : WorkInsertCall(t, k, v)
        \/ Lock(t)
        \/ ResizeLock(t)
        \/ ResizeBody(t)
        \/ InsertProbe(t)
        \/ Return(t)

SpecDisjoint == Init /\ [][NextDisjoint]_vars

\* ------------------------------------------------------------------ properties
\* some slot holds key k live
KeyLive(k) == \E i \in DOMAIN table : IsLive(table[i]) /\ table[i].key = k

\* the live (key, value) pairs of the table: the abstract map it stands for
LivePairs == {<<table[i].key, table[i].value>> : i \in {j \in DOMAIN table : IsLive(table[j])}}

\* the table has grown since construction
HasGrown == table_size > initial_size

\* thread t is between acquiring access_mutex and returning
InCritical(t) == pc[t] \in {"resize80", "grow80", "insert_probe", "resize92", "grow92",
                            "reinsert", "find_probe", "remove_probe", "deadlocked",
                            "crashed"}

\* C1: once insert(K, V) has returned true, find(K) returns V in every later state,
\* whatever is done to other keys (collisions, tombstones, growth), until remove(K)
\* or another insert(K, .) runs.
C1_FindReturnsInserted ==
    \A k \in AllKeys : amap[k] # NoValue => FindResult(k) = RetFound(amap[k])

\* C1 witness: an inserted key sits away from its home slot in a table that has grown
\* and holds the tombstone of another key.
C1_Witness ==
    \E k \in ValidKeys :
        /\ amap[k] # NoValue
        /\ HasGrown
        /\ \E i \in DOMAIN table :
               IsLive(table[i]) /\ table[i].key = k /\ i # hash(k, table_size)
        /\ \E j \in DOMAIN table : IsTomb(table[j]) /\ table[j].key # k

\* C2: insert with a valid key always completes and returns true: it never blocks
\* for ever, never dies and never ends otherwise than by returning true.
C2_InsertReturnsTrue ==
    \A t \in Threads :
        (op[t] = "insert" /\ check_key(key[t])) =>
            /\ pc[t] \notin {"deadlocked", "crashed"}
            /\ pc[t] = "ret" => result[t] = RetTrue

\* C3: no thread ever tries to acquire access_mutex while it already holds it (and so
\* no thread blocks on itself, holding every other caller out for ever).
C3_NoSelfLock ==
    \A t \in Threads : ~(pc[t] = "reinsert" /\ access_mutex = t)

\* C4: after remove(K) has returned true find(K) returns not-found until insert(K, .)
\* runs again, whatever happens to other keys and through growth; after that insert
\* find(K) returns the newly inserted value, never the tombstone's.
C4_RemovedStaysAbsent ==
    \A k \in AllKeys :
        /\ removed[k] = "gone" => FindResult(k) = RetFalse
        /\ removed[k] = "back" => FindResult(k) = RetFound(amap[k])

\* C4 witness: a key was removed and inserted again with another value while its
\* tombstone, holding the old value, is still in the table; another removed key is
\* still absent.
C4_Witness ==
    /\ \E k \in ValidKeys :
           /\ removed[k] = "back"
           /\ \E j \in DOMAIN table :
                  IsTomb(table[j]) /\ table[j].key = k /\ table[j].value # amap[k]
    /\ \E k \in ValidKeys : removed[k] = "gone"

\* C5: an insert of a key that is live returns true, makes find return the new value
\* and leaves size() as it was, also when the call grows the table first.
C5_OverwriteKeepsSize ==
    [][\A t \in Threads :
          (pc[t] \in {"grow80", "insert_probe"} /\ pc'[t] # pc[t] /\ KeyLive(key[t])) =>
              /\ size' = size
              /\ pc'[t] \in {"insert_probe", "ret"}
              /\ pc'[t] = "ret" =>
                     /\ result'[t] = RetTrue
                     /\ FindResult(key[t])' = RetFound(val[t])]_vars

\* C5 witness: an insert has grown the table, then overwritten a live key's value with
\* a different one.
C5_Witness ==
    \E t \in Threads :
        /\ pc[t] = "ret" /\ op[t] = "insert" /\ path[t] = "overwrite" /\ grew[t]
        /\ result[t] = RetTrue
        /\ item_count >= 2

\* C6: remove of a key that is not live returns false and changes nothing: count,
\* capacity, and every slot's key, value and liveness flag.
C6_RemoveAbsentIsNoOp ==
    [][\A t \in Threads :
          (pc[t] = "remove_probe" /\ pc'[t] # pc[t] /\ ~KeyLive(key[t])) =>
              /\ result'[t] = RetFalse
              /\ UNCHANGED <<table, table_size, item_count>>]_vars

\* C6 witness: remove returned false for a key whose tombstone is in a table that
\* holds live keys too.
C6_Witness ==
    \E t \in Threads :
        /\ pc[t] = "ret" /\ op[t] = "remove" /\ result[t] = RetFalse
        /\ check_key(key[t])
        /\ \E j \in DOMAIN table : IsTomb(table[j]) /\ table[j].key = key[t]
        /\ item_count >= 1

\* C7: a growth pass leaves the abstract map as it was: the live (key, value) pairs,
\* count and what find returns for every key are the same before and after it.
C7_GrowthTransparent ==
    [][table_size' # table_size =>
          /\ item_count' = item_count
          /\ LivePairs' = LivePairs
          /\ \A k \in AllKeys : FindResult(k)' = FindResult(k)]_vars

\* C7 witness: the table has grown twice, holds three live keys, and a removed key's
\* tombstone has been dropped.
C7_Witness ==
    /\ table_size >= 4 * initial_size
    /\ item_count >= 3
    /\ \E k \in ValidKeys : removed[k] # "no"

\* the keys the disjoint-insert workload has written so far
WrittenKeys == {k \in ValidKeys : written[k] # NoValue}

\* every thread of the disjoint-insert workload has inserted all its keys and returned
WorkDone ==
    /\ \A t \in Threads : pc[t] = "idle"
    /\ \A t \in Threads : WorkKeys(t) \subseteq WrittenKeys

\* C8: threads inserting pairwise disjoint key sets into an empty table lose no insert
\* under any interleaving: every insert returns true without taking the wrap branch,
\* and once all threads have finished size() is the number of keys written and every
\* key is found with the value its thread wrote.
C8_DisjointInsertsAllKept ==
    /\ \A t \in Threads :
           /\ path[t] # "wrap"
           /\ pc[t] = "ret" => result[t] = RetTrue
    /\ WorkDone =>
           /\ size = Cardinality(UNION {WorkKeys(t) : t \in Threads})
           /\ \A k \in WrittenKeys : FindResult(k) = RetFound(written[k])

\* C8 witness: all threads have finished, having written four keys or more between
\* them, and the table has grown twice on the way.
C8_Witness ==
    /\ WorkDone
    /\ Cardinality(WrittenKeys) >= 4
    /\ table_size >= 4 * initial_size

\* C9: every call returns what the sequential map returns when the calls are applied
\* to it in the order in which they acquired access_mutex, and at most one thread is
\* between acquiring access_mutex and returning.
C9_Linearizable ==
    /\ \A t \in Threads : pc[t] = "ret" => result[t] = expect[t]
    /\ Cardinality({t \in Threads : InCritical(t)}) <= 1

LiveSlots == {i \in DOMAIN table : IsLive(table[i])}

\* C11: count, which size() returns, is the number of live slots whenever no thread
\* holds access_mutex (and while one does): a fresh insert adds one, a successful
\* remove takes one, overwrite, failed remove, find and growth leave it.
C11_CountIsLiveSlots == size = Cardinality(LiveSlots)

\* C11 witness: nobody holds access_mutex; the table has grown, holds two live keys or
\* more and a tombstone.
C11_Witness ==
    /\ access_mutex = Free
    /\ HasGrown
    /\ item_count >= 2
    /\ \E j \in DOMAIN table : IsTomb(table[j])

\* the slots a probe for key k inspects on its way to slot i, i included
WalkTo(k, i) ==
    LET h == hash(k, table_size)
    IN {(h + d) % table_size : d \in 0..((i - h + table_size) % table_size)}

\* C12: for every live key, the walk from its home slot in steps of +1 (wrapping) to
\* the live slot holding it crosses no empty slot; tombstones on the way do not
\* break the chain.
C12_ProbeChain ==
    \A i \in LiveSlots : \A j \in WalkTo(table[i].key, i) : ~IsEmpty(table[j])

\* C12 witness: in a table that has grown, a live key is reached from its home slot
\* across a tombstone.
C12_Witness ==
    /\ HasGrown
    /\ \E i \in LiveSlots :
           \E j \in WalkTo(table[i].key, i) : IsTomb(table[j])

\* C13: no two slots are live and hold equal keys.
C13_OneLiveSlotPerKey ==
    \A i, j \in LiveSlots : table[i].key = table[j].key => i = j

\* C13 witness: a key was removed and inserted again, its tombstone's table has since
\* grown, and two keys or more are live.
C13_Witness ==
    /\ HasGrown
    /\ item_count >= 2
    /\ \E k \in ValidKeys : removed[k] = "back" /\ KeyLive(k)

\* C14: when insert's probe wraps back to its start index, the growth pass it forces
\* doubles the capacity, and the retry does not wrap again: the wrap branch is taken
\* at most once in one insert call.
C14_WrapGrowsAndRetriesOnce ==
    \A t \in Threads :
        /\ pc[t] = "reinsert" => grew[t]
        /\ ~(depth[t] >= 1 /\ pc[t] \in {"resize92", "grow92", "reinsert"})

\* C15 as claimed: whenever an insert call has returned, count * 2 <= capacity.
C15_HalfLoadAfterInsert ==
    \A t \in Threads :
        (pc[t] = "ret" /\ op[t] = "insert") => item_count * 2 <= table_size

\* C15 as amended: growth is triggered when count * 2 > capacity at the start of an
\* insert, so count * 2 <= capacity holds when the probe starts and when an overwrite
\* returns, and count * 2 <= capacity + 2 when a fresh insert returns.
C15_HalfLoadBeforeProbe ==
    \A t \in Threads :
        /\ pc[t] = "insert_probe" => item_count * 2 <= table_size
        /\ (pc[t] = "ret" /\ op[t] = "insert" /\ path[t] = "overwrite") =>
               item_count * 2 <= table_size
        /\ (pc[t] = "ret" /\ op[t] = "insert" /\ result[t] = RetTrue) =>
               item_count * 2 <= table_size + 2

\* C15 witness: an insert has grown the table, written a fresh slot and returned with
\* the table more than half full.
C15_Witness ==
    \E t \in Threads :
        /\ pc[t] = "ret" /\ op[t] = "insert" /\ path[t] = "fresh" /\ grew[t]
        /\ result[t] = RetTrue
        /\ item_count * 2 > table_size

\* C16: count <= capacity in every reachable state, from every initial capacity,
\* 1 included.
C16_CountAtMostCapacity == item_count <= table_size

\* C16 witness: a table built with capacity 1 is full: count = capacity = 1.
C16_Witness ==
    /\ initial_size = 1
    /\ table_size = 1
    /\ item_count = 1

\* the slots of a table that hold an entry, live or tombstoned
NonEmptySlots(tbl) == {i \in DOMAIN tbl : ~IsEmpty(tbl[i])}

\* C17: a growth pass sets the capacity to exactly twice the old one; the new table's
\* non-empty slots are exactly the old table's live entries, none of them a tombstone,
\* and their number is count.
C17_GrowthDoublesAndCompacts ==
    [][table_size' # table_size =>
          /\ table_size' = 2 * table_size
          /\ DOMAIN table' = 0..(table_size' - 1)
          /\ \A j \in DOMAIN table' : ~IsTomb(table'[j])
          /\ {table'[j] : j \in NonEmptySlots(table')} = {table[i] : i \in LiveSlots}
          /\ Cardinality(NonEmptySlots(table')) = Cardinality(LiveSlots)
          /\ Cardinality(NonEmptySlots(table')) = item_count'
          /\ item_count' = item_count]_vars

\* C17 witness: an insert's resize() has just grown a table that held a tombstone: the
\* removed key has no slot any more, and live keys were carried over.
C17_Witness ==
    \E t \in Threads :
        /\ pc[t] = "insert_probe" /\ grew[t] /\ depth[t] = 0
        /\ item_count >= 2
        /\ \E k \in ValidKeys :
               /\ removed[k] = "gone"
               /\ \A j \in DOMAIN table : ~(table[j].alloc /\ table[j].key = k)

\* lines 83-95: the first empty slot of k's probe sequence, -1 if the table has none
FirstEmpty(tbl, tsize, k) ==
    LET h == hash(k, tsize)
        Offsets == {d \in 0..(tsize - 1) : IsEmpty(tbl[(h + d) % tsize])}
    IN IF Offsets = {} THEN -1
       ELSE (h + CHOOSE d \in Offsets : \A e \in Offsets : d <= e) % tsize

\* C18: while the capacity stays as it is, a slot only moves Empty -> Live -> Tombstoned:
\* an empty slot stays empty or becomes live, a live slot keeps its key and stays live
\* or becomes a tombstone, a tombstone is left exactly as it is; and an insert of a key
\* that is not live writes the first empty slot of its probe sequence and no other slot.
C18_SlotLifeCycle ==
    [][table_size' = table_size =>
          /\ \A i \in DOMAIN table :
                 /\ IsEmpty(table[i]) => IsEmpty(table'[i]) \/ IsLive(table'[i])
                 /\ IsLive(table[i]) => /\ ~IsEmpty(table'[i])
                                        /\ table'[i].key = table[i].key
                 /\ IsTomb(table[i]) => table'[i] = table[i]
          /\ \A t \in Threads :
                 LET f == FirstEmpty(table, table_size, key[t])
                 IN (/\ pc[t] = "insert_probe"
                     /\ pc'[t] # pc[t]
                     /\ ~KeyLive(key[t])
                     /\ f >= 0) =>
                        /\ pc'[t] = "ret"
                        /\ table' = [table EXCEPT ![f] = LiveEntry(key[t], val[t])]]_vars

\* C18 witness: an insert of a removed key has returned; the key's tombstone is still in
\* its slot, with the key in it, and the key is live in another slot.
C18_Witness ==
    \E t \in Threads :
        /\ pc[t] = "ret" /\ op[t] = "insert" /\ path[t] = "fresh"
        /\ \E i, j \in DOMAIN table :
               /\ IsTomb(table[i]) /\ table[i].key = key[t]
               /\ IsLive(table[j]) /\ table[j].key = key[t]
               /\ j = (i + 1) % table_size

\* the threads inside the body of resize()
InResize == {t \in Threads : pc[t] \in {"grow80", "grow92"}}

\* the locks as C19 has them: resize_mutex is held only by the thread that holds
\* access_mutex, and only that thread is inside resize()
LocksNested ==
    /\ resize_mutex # Free => access_mutex = resize_mutex
    /\ \A t \in InResize : access_mutex = t /\ resize_mutex = t
    /\ Cardinality(InResize) <= 1

\* C19: every step that changes the table, table_size or item_count is a step of the
\* thread that holds access_mutex; a thread holds resize_mutex only while it holds
\* access_mutex, and at most one thread is inside resize().
C19_MutationsUnderAccessLock ==
    [][/\ shared' # shared =>
              \E t \in Threads : /\ access_mutex = t
                                 /\ pc'[t] # pc[t]
                                 /\ \A u \in Threads \ {t} : pc'[u] = pc[u]
       /\ LocksNested
       /\ LocksNested']_vars

\* C19 witness: a thread is inside a resize() that grows the table, holding both locks,
\* while the other thread waits for access_mutex with an insert.
C19_Witness ==
    \E t, u \in Threads :
        /\ t # u
        /\ pc[t] = "grow80" /\ access_mutex = t /\ resize_mutex = t
        /\ NeedsResize(item_count, table_size)
        /\ pc[u] = "lock" /\ op[u] = "insert"

\* lines 115-124: the number of slots find's loop looks at, n of them so far
RECURSIVE FindInspected(_, _, _, _, _, _)
FindInspected(tbl, tsize, k, index, original_index, n) ==
    IF ~tbl[index].alloc THEN n + 1
    ELSE IF Matches(tbl[index], k) THEN n + 1
    ELSE LET next == (index + 1) % tsize
         IN IF next = original_index THEN n + 1
            ELSE FindInspected(tbl, tsize, k, next, original_index, n + 1)

\* C20: find's step looks at no more than table_size slots, ends the call, leaves table,
\* table_size, item_count and both locks as they are, answers "not found" only when its
\* walk ended at an empty slot or came back to its start; a find call is never in resize().
C20_FindReadOnly ==
    [][\A t \in Threads :
          /\ op[t] = "find" => pc[t] \notin {"resize80", "grow80", "insert_probe",
                                             "resize92", "grow92", "reinsert"}
          /\ (pc[t] = "find_probe" /\ pc'[t] # pc[t]) =>
                 LET h == hash(key[t], table_size)
                     n == FindInspected(table, table_size, key[t], h, h, 0)
                     last == (h + n - 1) % table_size
                 IN /\ n <= table_size
                    /\ shared' = shared
                    /\ locks' = locks
                    /\ pc'[t] = "ret"
                    /\ \A d \in 0..(n - 2) : ~IsEmpty(table[(h + d) % table_size])
                    /\ result'[t] = RetFalse =>
                           \/ IsEmpty(table[last])
                           \/ n = table_size
                    /\ result'[t] # RetFalse =>
                           /\ IsLive(table[last]) /\ table[last].key = key[t]
                           /\ result'[t] = RetFound(table[last].value)]_vars

\* C20 witness: find has answered "not found" after walking all of a table of several
\* slots that has no empty slot, a tombstone among them.
C20_Witness ==
    \E t \in Threads :
        /\ pc[t] = "ret" /\ op[t] = "find" /\ result[t] = RetFalse
        /\ check_key(key[t])
        /\ table_size >= 2
        /\ \A i \in DOMAIN table : ~IsEmpty(table[i])
        /\ \E i \in DOMAIN table : IsTomb(table[i])

====
